---- MODULE Spec2Model ----
(***************************************************************************)
(* Verification model of helm-docgen's documentation extractor:            *)
(*   - the Path model (parser/path.go, exercised by parser/path_test.go),  *)
(*   - the comment model (parser/comment.go),                              *)
(*   - the tree walker and document assembler                              *)
(*     (internal/parser/document.go).                                      *)
(* Go strings are modelled as sequences of one-character strings, so that  *)
(* rendering and parsing are real conversions.                             *)
(***************************************************************************)
EXTENDS Integers, Sequences, FiniteSets, TLC

(***************************************************************************)
(* Bounds of the model                                                     *)
(***************************************************************************)
\* longest input string handed to ParsePath
MaxStrLen == 5
\* longest Path built with WithProperty / WithIndex
MaxPathLen == 3
\* largest index step built with WithIndex
MaxIndex == 10
\* depth of the Go call stack of walk() at which the runtime gives up
MaxDepth == 7

(***************************************************************************)
(* Strings                                                                 *)
(***************************************************************************)
Digits == <<"0", "1", "2", "3", "4", "5", "6", "7", "8", "9">>

DigitChars == {Digits[i] : i \in 1..10}

LetterChars ==
  {"a","b","c","d","e","f","g","h","i","j","k","l","m",
   "n","o","p","q","r","s","t","u","v","w","x","y","z",
   "A","B","C","D","E","F","G","H","I","J","K","L","M",
   "N","O","P","Q","R","S","T","U","V","W","X","Y","Z"}

\* the character class [a-zA-Z0-9_-] of a property segment
NameChars == LetterChars \cup DigitChars \cup {"_", "-"}

DigitVal(c) == (CHOOSE i \in 1..10 : Digits[i] = c) - 1

\* strconv.Atoi on a run of digits
RECURSIVE StrToInt(_)
StrToInt(s) ==
  IF s = <<>> THEN 0
  ELSE 10 * StrToInt(SubSeq(s, 1, Len(s) - 1)) + DigitVal(s[Len(s)])

\* decimal rendering of a non-negative integer (%d)
RECURSIVE IntToStr(_)
IntToStr(n) ==
  IF n < 10 THEN <<Digits[n + 1]>>
  ELSE IntToStr(n \div 10) \o <<Digits[(n % 10) + 1]>>

(***************************************************************************)
(* Path model                                                              *)
(***************************************************************************)
stringPathComponent(name) == [kind |-> "property", name |-> name, index |-> 0]

indexPathComponent(i) == [kind |-> "index", name |-> <<>>, index |-> i]

WithProperty(p, name) == Append(p, stringPathComponent(name))

WithIndex(p, i) == Append(p, indexPathComponent(i))

Parent(p) == IF p = <<>> THEN <<>> ELSE SubSeq(p, 1, Len(p) - 1)

\* mutant: the dot is written from the third component on
ComponentString_OffByOne(c, i) ==
  IF c.kind = "property"
  THEN (IF i > 2 THEN <<".">> ELSE <<>>) \o c.name
  ELSE <<"[">> \o IntToStr(c.index) \o <<"]">>

\* rendering of one component at position i of a path
ComponentString(c, i) ==
  IF c.kind = "property"
  THEN (IF i > 1 THEN <<".">> ELSE <<>>) \o c.name
  ELSE <<"[">> \o IntToStr(c.index) \o <<"]">>

RECURSIVE PathStringFrom(_, _)
PathStringFrom(p, i) ==
  IF i > Len(p) THEN <<>>
  ELSE ComponentString(p[i], i) \o PathStringFrom(p, i + 1)

\* Path.String()
PathString(p) == PathStringFrom(p, 1)

\* length of the longest run of name characters of s starting at pos
RECURSIVE NameRun(_, _)
NameRun(s, pos) ==
  IF pos <= Len(s) /\ s[pos] \in NameChars THEN 1 + NameRun(s, pos + 1) ELSE 0

\* length of the longest run of digits of s starting at pos
RECURSIVE DigitRun(_, _)
DigitRun(s, pos) ==
  IF pos <= Len(s) /\ s[pos] \in DigitChars THEN 1 + DigitRun(s, pos + 1) ELSE 0

\* the index segment '[' digits ']' matches at pos
MatchesIndex(s, pos) ==
  /\ pos <= Len(s)
  /\ s[pos] = "["
  /\ DigitRun(s, pos + 1) > 0
  /\ pos + 1 + DigitRun(s, pos + 1) <= Len(s)
  /\ s[pos + 1 + DigitRun(s, pos + 1)] = "]"

\* mutant: the dot may be left out by every property segment
MatchesProperty_DotOptional(s, pos) ==
  /\ pos <= Len(s)
  /\ IF s[pos] = "." THEN NameRun(s, pos + 1) > 0 ELSE NameRun(s, pos) > 0

\* the property segment matches at pos: the dot may be left out only by the
\* first segment of the string
MatchesProperty(s, pos) ==
  /\ pos <= Len(s)
  /\ IF s[pos] = "." THEN NameRun(s, pos + 1) > 0
     ELSE pos = 1 /\ NameRun(s, pos) > 0

RECURSIVE ParseFrom(_, _, _)
ParseFrom(s, pos, acc) ==
  IF pos > Len(s) THEN [path |-> acc, err |-> FALSE]
  ELSE IF MatchesIndex(s, pos)
  THEN LET n == DigitRun(s, pos + 1)
       IN ParseFrom(s, pos + n + 2,
                    Append(acc, indexPathComponent(StrToInt(SubSeq(s, pos + 1, pos + n)))))
  ELSE IF MatchesProperty(s, pos)
  THEN LET start == IF s[pos] = "." THEN pos + 1 ELSE pos
           n == NameRun(s, start)
       IN ParseFrom(s, start + n,
                    Append(acc, stringPathComponent(SubSeq(s, start, start + n - 1))))
  ELSE [path |-> acc, err |-> TRUE]

\* ParsePath(s) -> (Path, error)
ParsePath(s) == ParseFrom(s, 1, <<>>)

(***************************************************************************)
(* Directive tags                                                          *)
(***************************************************************************)
TagSection == <<"d", "o", "c", "s", ":", "s", "e", "c", "t", "i", "o", "n">>

TagIgnore == <<"d", "o", "c", "s", ":", "i", "g", "n", "o", "r", "e">>

TagType == <<"d", "o", "c", "s", ":", "t", "y", "p", "e">>

TagDefault == <<"d", "o", "c", "s", ":", "d", "e", "f", "a", "u", "l", "t">>

TagProperty == <<"d", "o", "c", "s", ":", "p", "r", "o", "p", "e", "r", "t", "y">>

TagNames == {TagSection, TagIgnore, TagType, TagDefault, TagProperty}

StrFalse == <<"f", "a", "l", "s", "e">>

StrTrue == <<"t", "r", "u", "e">>

\* the marker that opens and closes a fenced code block
Fence == <<"~", "~", "~">>

(***************************************************************************)
(* Comment model.  A raw comment is a sequence of lines; a line is a       *)
(* string.  A directive line is +key or +key=value.                        *)
(***************************************************************************)
CommentTypeText == "text"

CommentTypeCode == "code"

\* the zero Comment: no tags, no sections
EmptyComment == [Tags |-> <<>>, Sections |-> <<>>]

\* position of the first '=' of a line, or Len + 1
RECURSIVE EqPos(_, _)
EqPos(line, pos) ==
  IF pos > Len(line) \/ line[pos] = "=" THEN pos ELSE EqPos(line, pos + 1)

DirectiveKey(line) == SubSeq(line, 2, EqPos(line, 1) - 1)

DirectiveValue(line) == SubSeq(line, EqPos(line, 1) + 1, Len(line))

IsDirective(line) ==
  /\ Len(line) > 1
  /\ line[1] = "+"
  /\ DirectiveKey(line) \in TagNames

\* Tags is a map from directive name to its value; a directive without a
\* value is stored with the empty string
SetTag(tags, key, val) ==
  [k \in (DOMAIN tags) \cup {key} |-> IF k = key THEN val ELSE tags[k]]

\* Tags.GetBool
GetBool(tags, key) == key \in DOMAIN tags /\ tags[key] # StrFalse

\* Tags.GetString
GetString(tags, key) == IF key \in DOMAIN tags THEN tags[key] ELSE <<>>

\* close the segment that is being collected, if it has any line
FlushSegment(st) ==
  IF st.cur = <<>> THEN st
  ELSE [st EXCEPT !.c.Sections = Append(@, [Type |-> st.typ, Lines |-> st.cur]),
                  !.cur = <<>>]

\* one line of a comment block
ParseLine(st, line) ==
  IF st.typ = CommentTypeCode
  THEN IF line = Fence
       THEN [FlushSegment(st) EXCEPT !.typ = CommentTypeText]
       ELSE [st EXCEPT !.cur = Append(@, line)]
  ELSE IF line = Fence
       THEN [FlushSegment(st) EXCEPT !.typ = CommentTypeCode]
       ELSE IF IsDirective(line)
       THEN [st EXCEPT !.c.Tags = SetTag(@, DirectiveKey(line), DirectiveValue(line))]
       ELSE [st EXCEPT !.cur = Append(@, line)]

RECURSIVE ParseBlock(_, _)
ParseBlock(st, lines) ==
  IF lines = <<>> THEN FlushSegment(st).c
  ELSE ParseBlock(ParseLine(st, Head(lines)), Tail(lines))

\* blocks are separated by one or more blank lines
RECURSIVE SplitBlocks(_, _, _)
SplitBlocks(lines, cur, acc) ==
  IF lines = <<>> THEN (IF cur = <<>> THEN acc ELSE Append(acc, cur))
  ELSE IF Head(lines) = <<>>
       THEN SplitBlocks(Tail(lines), <<>>, IF cur = <<>> THEN acc ELSE Append(acc, cur))
       ELSE SplitBlocks(Tail(lines), Append(cur, Head(lines)), acc)

\* ParseComment(raw) -> Comments
ParseComment(raw) ==
  LET blocks == SplitBlocks(raw, <<>>, <<>>)
  IN [i \in 1..Len(blocks) |->
        ParseBlock([c |-> EmptyComment, typ |-> CommentTypeText, cur |-> <<>>], blocks[i])]

\* Comments.Pop(): removes and returns the first comment; the zero Comment
\* when there is none
Pop(comments) ==
  IF comments = <<>> THEN [comment |-> EmptyComment, rest |-> <<>>, ok |-> FALSE]
  ELSE [comment |-> Head(comments), rest |-> Tail(comments), ok |-> TRUE]

RECURSIVE JoinLines(_)
JoinLines(lines) ==
  IF lines = <<>> THEN <<>>
  ELSE IF Len(lines) = 1 THEN lines[1]
  ELSE lines[1] \o <<"\n">> \o JoinLines(Tail(lines))

\* CommentSection.String(): the text of the segment, markers stripped
SectionString(sec) == JoinLines(sec.Lines)

\* Comment.String(): segments in order, a code segment fenced again
CommentString(c) ==
  JoinLines([i \in 1..Len(c.Sections) |->
               IF c.Sections[i].Type = CommentTypeCode
               THEN JoinLines(<<Fence, SectionString(c.Sections[i]), Fence>>)
               ELSE SectionString(c.Sections[i])])

(***************************************************************************)
(* State                                                                   *)
(***************************************************************************)
VARIABLES
  tree,      \* the decoded yaml.Node graph: raw node id -> node
  stack,     \* the Go call stack of walk(), innermost call first
  document,  \* the Document under construction
  log,       \* history: the calls made so far by the walk, in order
  status,    \* "walking", "done" (Load returned) or "overflow" (stack exhausted)
  path,      \* a Path value built with WithProperty / WithIndex / Parent
  str,       \* a string: an input of ParsePath or a rendering of path
  res        \* the result of the last ParsePath call, or NoResult

vars == <<tree, stack, document, log, status, path, str, res>>

walkVars == <<tree, stack, document, log, status>>

pathVars == <<path, str, res>>

(***************************************************************************)
(* yaml.v3 nodes                                                           *)
(***************************************************************************)
DocumentNode == "document"

SequenceNode == "sequence"

MappingNode == "mapping"

ScalarNode == "scalar"

AliasNode == "alias"

\* a nil *yaml.Node
NilNode ==
  [id |-> 0, Kind |-> "none", Tag |-> "!!null", Value |-> <<>>, Content |-> <<>>,
   Alias |-> 0, HeadComment |-> <<>>, FootComment |-> <<>>]

\* the tag yaml resolves for a plain scalar
ResolveTag(v) ==
  IF v = StrTrue \/ v = StrFalse THEN "!!bool"
  ELSE IF v # <<>> /\ DigitRun(v, 1) = Len(v) THEN "!!int"
  ELSE IF v = <<>> \/ v = <<"~">> THEN "!!null"
  ELSE "!!str"

\* a node built by yaml.Unmarshal (it is not part of the input tree)
ParsedValue(v) ==
  IF v = <<"[", "]">> THEN [NilNode EXCEPT !.id = -1, !.Kind = SequenceNode, !.Tag = "!!seq"]
  ELSE IF v = <<"{", "}">> THEN [NilNode EXCEPT !.id = -1, !.Kind = MappingNode, !.Tag = "!!map"]
  ELSE [NilNode EXCEPT !.id = -1, !.Kind = ScalarNode, !.Tag = ResolveTag(v), !.Value = v]

RECURSIVE SplitLines(_, _, _)
SplitLines(text, cur, acc) ==
  IF text = <<>> THEN Append(acc, cur)
  ELSE IF Head(text) = "\n" THEN SplitLines(Tail(text), <<>>, Append(acc, cur))
  ELSE SplitLines(Tail(text), Append(cur, Head(text)), acc)

\* a line of the form  key: value
IsPairLine(line) ==
  LET n == NameRun(line, 1)
  IN n > 0 /\ Len(line) > n + 2 /\ line[n + 1] = ":" /\ line[n + 2] = " "

PairKey(line) == SubSeq(line, 1, NameRun(line, 1))

PairValue(line) == SubSeq(line, NameRun(line, 1) + 3, Len(line))

\* yaml.Unmarshal(text, &node): the document node; Content is empty when the
\* text is empty or is not YAML, else it holds the one top-level node
Unmarshal(text) ==
  LET lines == SplitLines(text, <<>>, <<>>)
      doc(content) == [NilNode EXCEPT !.id = -1, !.Kind = DocumentNode, !.Content = content]
  IN IF text = <<>> THEN doc(<<>>)
     ELSE IF \A i \in 1..Len(lines) : IsPairLine(lines[i])
     THEN doc(<<[NilNode EXCEPT
                   !.id = -1, !.Kind = MappingNode, !.Tag = "!!map",
                   !.Content = [j \in 1..(2 * Len(lines)) |->
                                  IF j % 2 = 1
                                  THEN [NilNode EXCEPT !.id = -1, !.Kind = ScalarNode,
                                                       !.Tag = "!!str",
                                                       !.Value = PairKey(lines[(j + 1) \div 2])]
                                  ELSE ParsedValue(PairValue(lines[j \div 2]))]]>>)
     ELSE IF Len(lines) = 1 /\ NameRun(text, 1) = Len(text)
     THEN doc(<<ParsedValue(text)>>)
     ELSE doc(<<>>)

\* Node.ShortTag()
ShortTag(raw) ==
  IF raw.Kind = AliasNode
  THEN (IF raw.Alias # 0 THEN tree[raw.Alias].Tag ELSE "!!null")
  ELSE raw.Tag

TypeBool == <<"b", "o", "o", "l">>

TypeString == <<"s", "t", "r", "i", "n", "g">>

TypeNumber == <<"n", "u", "m", "b", "e", "r">>

TypeTimestamp == <<"t", "i", "m", "e", "s", "t", "a", "m", "p">>

TypeArray == <<"a", "r", "r", "a", "y">>

TypeObject == <<"o", "b", "j", "e", "c", "t">>

TypeUnknown == <<"u", "n", "k", "n", "o", "w", "n">>

StrUndefined == <<"u", "n", "d", "e", "f", "i", "n", "e", "d">>

StrNull == <<"n", "u", "l", "l">>

\* getTypeOf(node, comment)
getTypeOf(node, comment) ==
  IF GetString(comment.Tags, TagType) # <<>> THEN GetString(comment.Tags, TagType)
  ELSE IF node.RawNode.id = 0 THEN TypeUnknown
  ELSE CASE ShortTag(node.RawNode) = "!!bool" -> TypeBool
         [] ShortTag(node.RawNode) = "!!str" -> TypeString
         [] ShortTag(node.RawNode) = "!!int" -> TypeNumber
         [] ShortTag(node.RawNode) = "!!float" -> TypeNumber
         [] ShortTag(node.RawNode) = "!!timestamp" -> TypeTimestamp
         [] ShortTag(node.RawNode) = "!!seq" -> TypeArray
         [] ShortTag(node.RawNode) = "!!map" -> TypeObject
         [] OTHER -> TypeUnknown

\* mutant: the docs:property case of the switch is missing
isEndNode_NoPropertyCase(n, c) ==
  IF n.RawNode.Kind = DocumentNode THEN FALSE
  ELSE IF n.RawNode.Kind = ScalarNode THEN TRUE
  ELSE IF n.RawNode.Kind = MappingNode THEN Len(n.RawNode.Content) = 0
  ELSE IF n.RawNode.Kind = SequenceNode THEN Len(n.RawNode.Content) = 0
  ELSE FALSE

\* isEndNode(n, c): the cases of the switch are tried in order
isEndNode(n, c) ==
  IF n.RawNode.Kind = DocumentNode THEN FALSE
  ELSE IF n.RawNode.Kind = ScalarNode THEN TRUE
  ELSE IF GetBool(c.Tags, TagProperty) THEN TRUE
  ELSE IF n.RawNode.Kind = MappingNode THEN Len(n.RawNode.Content) = 0
  ELSE IF n.RawNode.Kind = SequenceNode THEN Len(n.RawNode.Content) = 0
  ELSE FALSE

(***************************************************************************)
(* Default values: decode the node to a generic value, encode it again     *)
(* with an indent of two, trim                                             *)
(***************************************************************************)
\* the raw nodes a node refers to directly
Succ(id) ==
  {tree[id].Content[i] : i \in 1..Len(tree[id].Content)}
    \cup (IF tree[id].Alias # 0 THEN {tree[id].Alias} ELSE {})

RECURSIVE Closure(_)
Closure(S) ==
  LET T == S \cup UNION {Succ(m) : m \in S}
  IN IF T = S THEN S ELSE Closure(T)

\* the raw nodes reachable from id in one or more steps
Reach(id) == Closure(Succ(id))

\* Decode fails on a value that contains itself through an alias
ContainsItself(id) == \E m \in Reach(id) \cup {id} : m \in Reach(m)

\* an alias decodes as its target
Deref(id) == IF tree[id].Kind = AliasNode THEN tree[id].Alias ELSE id

\* the canonical text of a scalar
ScalarText(raw) ==
  IF raw.Tag = "!!null" THEN StrNull
  ELSE IF raw.Tag = "!!str" /\ ResolveTag(raw.Value) # "!!str"
  THEN <<"\"">> \o raw.Value \o <<"\"">>
  ELSE raw.Value

\* a value written on the line of its key or of its dash
IsInline(id) ==
  tree[Deref(id)].Kind = ScalarNode \/ tree[Deref(id)].Content = <<>>

Indent(lines) == [i \in 1..Len(lines) |-> <<" ", " ">> \o lines[i]]

RECURSIVE EncodeLines(_), EncodePairs(_, _), EncodeItems(_, _)
EncodeLines(id) ==
  LET raw == tree[id]
  IN IF raw.Kind = AliasNode THEN EncodeLines(raw.Alias)
     ELSE IF raw.Kind = ScalarNode THEN <<ScalarText(raw)>>
     ELSE IF raw.Kind = DocumentNode
     THEN (IF raw.Content = <<>> THEN <<StrNull>> ELSE EncodeLines(raw.Content[1]))
     ELSE IF raw.Kind = MappingNode
     THEN (IF raw.Content = <<>> THEN << <<"{", "}">> >> ELSE EncodePairs(raw.Content, 1))
     ELSE (IF raw.Content = <<>> THEN << <<"[", "]">> >> ELSE EncodeItems(raw.Content, 1))

EncodePairs(content, i) ==
  IF i > Len(content) THEN <<>>
  ELSE LET key == tree[content[i]].Value
           val == EncodeLines(content[i + 1])
       IN (IF IsInline(content[i + 1])
           THEN <<key \o <<":", " ">> \o val[1]>>
           ELSE <<key \o <<":">> >> \o Indent(val))
          \o EncodePairs(content, i + 2)

EncodeItems(content, i) ==
  IF i > Len(content) THEN <<>>
  ELSE LET val == EncodeLines(content[i])
       IN << <<"-", " ">> \o val[1]>> \o Indent(Tail(val))
          \o EncodeItems(content, i + 1)

IsSpace(c) == c \in {" ", "\n", "\t"}

RECURSIVE TrimSpace(_)
TrimSpace(s) ==
  IF s = <<>> THEN s
  ELSE IF IsSpace(s[1]) THEN TrimSpace(Tail(s))
  ELSE IF IsSpace(s[Len(s)]) THEN TrimSpace(SubSeq(s, 1, Len(s) - 1))
  ELSE s

\* getDefaultValue(n, c)
getDefaultValue(n, c) ==
  IF GetString(c.Tags, TagDefault) # <<>> THEN GetString(c.Tags, TagDefault)
  ELSE IF ContainsItself(n.RawNode.id) THEN StrNull
  ELSE TrimSpace(JoinLines(EncodeLines(n.RawNode.id)))

(***************************************************************************)
(* Document assembly                                                       *)
(***************************************************************************)
\* Document{Sections: make([]Section, 1)}
NewDocument ==
  [Sections |-> << [Name |-> <<>>, Description |-> <<>>, Properties |-> <<>>] >>]

\* mutant: the Property goes to the first section
AppendProperty_FirstSection(doc, prop) ==
  [doc EXCEPT !.Sections[1].Properties = Append(@, prop)]

\* document.Sections[len-1].Properties = append(..., prop)
AppendProperty(doc, prop) ==
  [doc EXCEPT !.Sections[Len(doc.Sections)].Properties = Append(@, prop)]

\* document.Sections = append(document.Sections, Section{...})
AppendSection(doc, comment) ==
  [doc EXCEPT !.Sections =
     Append(@, [Name |-> GetString(comment.Tags, TagSection),
                Description |-> CommentString(comment),
                Properties |-> <<>>])]

\* the code segment parseCommentsOntoDocument looks at: the loop keeps the
\* index of every code segment it meets, so the last one stays; 0 for none
RECURSIVE CodeIdx(_, _)
CodeIdx(sections, i) ==
  IF i = 0 THEN 0
  ELSE IF sections[i].Type = CommentTypeCode THEN i
  ELSE CodeIdx(sections, i - 1)

\* the document node holds one mapping with a single key
IsSinglePair(node) ==
  /\ Len(node.Content) # 0
  /\ node.Content[1].Kind = MappingNode
  /\ Len(node.Content[1].Content) = 2

\* the comment without the segment at index idx
RemoveSection(comment, idx) ==
  [Tags |-> comment.Tags,
   Sections |-> SubSeq(comment.Sections, 1, idx - 1)
                  \o SubSeq(comment.Sections, idx + 1, Len(comment.Sections))]

\* the body of the docs:property case for one comment: the Property to
\* append, or dropped when no name can be found
SyntheticProperty(p, comment) ==
  LET codeIdx == CodeIdx(comment.Sections, Len(comment.Sections))
      node == IF codeIdx # 0 THEN Unmarshal(SectionString(comment.Sections[codeIdx]))
              ELSE NilNode
      parsedSuccessfully == codeIdx # 0 /\ IsSinglePair(node)
      parsedNode ==
        IF parsedSuccessfully
        THEN [Path |-> WithProperty(p, node.Content[1].Content[1].Value),
              HeadComments |-> <<comment>>, FootComment |-> <<>>,
              RawNode |-> node.Content[1].Content[2]]
        ELSE [Path |-> <<>>, HeadComments |-> <<comment>>, FootComment |-> <<>>,
              RawNode |-> NilNode]
      newComment == IF parsedSuccessfully THEN RemoveSection(comment, codeIdx) ELSE comment
      name == IF GetString(newComment.Tags, TagProperty) # <<>>
              THEN GetString(newComment.Tags, TagProperty)
              ELSE PathString(parsedNode.Path)
  IN [dropped |-> name = <<>>,
      prop |-> [Name |-> name,
                Description |-> newComment,
                Type |-> getTypeOf(parsedNode, newComment),
                Default |-> StrUndefined]]

\* one iteration of the loop of parseCommentsOntoDocument; st holds the
\* document and the history
ParseCommentOntoDocument(p, st, comment) ==
  IF GetBool(comment.Tags, TagSection)
  THEN [doc |-> AppendSection(st.doc, comment),
        log |-> Append(st.log, [ev |-> "section", comment |-> comment])]
  ELSE IF GetBool(comment.Tags, TagProperty)
  THEN LET r == SyntheticProperty(p, comment)
       IN [doc |-> IF r.dropped THEN st.doc ELSE AppendProperty(st.doc, r.prop),
           log |-> Append(st.log, [ev |-> "synthetic", path |-> p, comment |-> comment,
                                   dropped |-> r.dropped, prop |-> r.prop])]
  ELSE st

\* parseCommentsOntoDocument(path, document, comments)
RECURSIVE parseCommentsOntoDocument(_, _, _)
parseCommentsOntoDocument(p, st, comments) ==
  IF comments = <<>> THEN st
  ELSE parseCommentsOntoDocument(p, ParseCommentOntoDocument(p, st, Head(comments)),
                                 Tail(comments))

\* a call of parseCommentsOntoDocument made by the callback, noted in the
\* history before it runs
Forward(src, p, st, comments) ==
  parseCommentsOntoDocument(
    p, [st EXCEPT !.log = Append(@, [ev |-> "forward", src |-> src, path |-> p,
                                     comments |-> comments])],
    comments)

\* mutant: the Property is named by the path of the parent, the path the
\* neighbouring calls pass on
EndNodeProperty_ParentPath(node, comment) ==
  [Name |-> PathString(Parent(node.Path)),
   Description |-> comment,
   Type |-> getTypeOf(node, comment),
   Default |-> getDefaultValue(node, comment)]

\* the Property of an end node (Load, the end of the callback)
EndNodeProperty(node, comment) ==
  [Name |-> PathString(node.Path),
   Description |-> comment,
   Type |-> getTypeOf(node, comment),
   Default |-> getDefaultValue(node, comment)]

\* the callback appends the Property of an end node
AppendEndNode(node, comment, st) ==
  [doc |-> AppendProperty(st.doc, EndNodeProperty(node, comment)),
   log |-> Append(st.log, [ev |-> "property", id |-> node.RawNode.id,
                           prop |-> EndNodeProperty(node, comment)])]

\* mutant: docs:ignore is looked at after the end-node test, so it only
\* hides end nodes
Decide_IgnoreAfterEndNode(node, comment, st) ==
  IF ~isEndNode(node, comment)
  THEN [st |-> Forward("own", Parent(node.Path), st, <<comment>>), stop |-> FALSE]
  ELSE IF GetBool(comment.Tags, TagIgnore)
  THEN [st |-> st, stop |-> TRUE]
  ELSE [st |-> AppendEndNode(node, comment, st), stop |-> TRUE]

\* the callback after the forwarding of the head comments: skip, descend
\* or append a Property
Decide(node, comment, st) ==
  IF GetBool(comment.Tags, TagIgnore)
  THEN [st |-> st, stop |-> TRUE]
  ELSE IF ~isEndNode(node, comment)
  THEN [st |-> Forward("own", Parent(node.Path), st, <<comment>>), stop |-> FALSE]
  ELSE [st |-> AppendEndNode(node, comment, st), stop |-> TRUE]

\* the callback Load passes to walk: the new document and history, and
\* whether the walk stops at this node.  The deferred call that processes
\* the foot comments runs when the callback returns.
Callback(node, st) ==
  LET popped == Pop(node.HeadComments)
      body == Decide(node, popped.comment,
                     Forward("head", Parent(node.Path), st, popped.rest))
  IN [st |-> Forward("foot", Parent(node.Path), body.st, node.FootComment),
      stop |-> body.stop]

(***************************************************************************)
(* Input trees                                                             *)
(***************************************************************************)
Dir(key) == <<"+">> \o key

DirV(key, val) == <<"+">> \o key \o <<"=">> \o val

TextLine == <<"t", "e", "x", "t">>

\* two comment blocks, separated by a blank line
Then(a, b) == a \o << <<>> >> \o b

cNone == <<>>

cText == <<TextLine>>

cIgnore == <<Dir(TagIgnore)>>

cProperty == <<Dir(TagProperty), TextLine>>

cIgnoreProperty == <<Dir(TagIgnore), Dir(TagProperty)>>

cSection == <<DirV(TagSection, <<"S">>), TextLine>>

cTyped == <<DirV(TagType, <<"T">>), DirV(TagDefault, <<"D">>), TextLine>>

cNamed == <<DirV(TagProperty, <<"P">>), DirV(TagDefault, <<"D">>)>>

cNoName == <<Dir(TagProperty)>>

cCode == <<Dir(TagProperty), TextLine, Fence, <<"k", ":", " ", "1">>, Fence>>

cNamedCode == <<DirV(TagProperty, <<"P">>), Fence, <<"k", ":", " ", "[", "]">>, Fence>>

cTwoCode ==
  <<Dir(TagProperty), Fence, <<"k", ":", " ", "1">>, Fence, TextLine,
    Fence, <<"m", ":", " ", "x">>, Fence>>

cTwoKeys ==
  <<Dir(TagProperty), Fence, <<"k", ":", " ", "1">>, <<"m", ":", " ", "2">>, Fence>>

RawScalar(id, tag, value) ==
  [NilNode EXCEPT !.id = id, !.Kind = ScalarNode, !.Tag = tag, !.Value = value]

\* the key node of a mapping entry carries the comments of the entry
RawKey(id, name, head, foot) ==
  [NilNode EXCEPT !.id = id, !.Kind = ScalarNode, !.Tag = "!!str", !.Value = name,
                  !.HeadComment = head, !.FootComment = foot]

RawMapping(id, content) ==
  [NilNode EXCEPT !.id = id, !.Kind = MappingNode, !.Tag = "!!map", !.Content = content]

RawSequence(id, content, head) ==
  [NilNode EXCEPT !.id = id, !.Kind = SequenceNode, !.Tag = "!!seq", !.Content = content,
                  !.HeadComment = head]

RawAlias(id, target, head) ==
  [NilNode EXCEPT !.id = id, !.Kind = AliasNode, !.Tag = "", !.Alias = target,
                  !.HeadComment = head]

RawDocument(id, content, head) ==
  [NilNode EXCEPT !.id = id, !.Kind = DocumentNode, !.Tag = "", !.Content = content,
                  !.HeadComment = head]

\* a: 1
\* b:
\*   c: "2"
\* e: [true, {}]
TreeNested(hd, hb, fb, hc) ==
  <<RawDocument(1, <<2>>, hd),
    RawMapping(2, <<3, 4, 5, 6, 9, 10>>),
    RawKey(3, <<"a">>, cNone, cNone), RawScalar(4, "!!int", <<"1">>),
    RawKey(5, <<"b">>, hb, fb), RawMapping(6, <<7, 8>>),
    RawKey(7, <<"c">>, hc, cNone), RawScalar(8, "!!str", <<"2">>),
    RawKey(9, <<"e">>, cNone, cNone), RawSequence(10, <<11, 12>>, cNone),
    RawScalar(11, "!!bool", StrTrue), RawMapping(12, <<>>)>>

\* a: &x
\*   v: x
\*   r: *x
TreeCycle(ha, hr) ==
  <<RawDocument(1, <<2>>, cNone),
    RawMapping(2, <<3, 4>>),
    RawKey(3, <<"a">>, ha, cNone), RawMapping(4, <<5, 6, 7, 8>>),
    RawKey(5, <<"v">>, cNone, cNone), RawScalar(6, "!!str", <<"x">>),
    RawKey(7, <<"r">>, hr, cNone), RawAlias(8, 4, cNone)>>

\* s: [&y {k: v}, *y]
\* t: []
TreeShared(hs, hq) ==
  <<RawDocument(1, <<2>>, cNone),
    RawMapping(2, <<3, 4, 9, 10>>),
    RawKey(3, <<"s">>, cNone, cNone), RawSequence(4, <<5, 8>>, hq),
    RawMapping(5, <<6, 7>>), RawKey(6, <<"k">>, hs, cNone),
    RawScalar(7, "!!str", <<"v">>), RawAlias(8, 5, cNone),
    RawKey(9, <<"t">>, cNone, cNone), RawSequence(10, <<>>, cNone)>>

DocHeads == {cNone, cIgnore, cNamed}

ContainerHeads ==
  {cNone, cIgnore, cProperty, cSection, cTyped, cIgnoreProperty,
   Then(cText, cSection), Then(cIgnore, cCode), Then(cText, cNamedCode)}

ContainerFoots == {cNone, cSection, cNamed, cCode, cTwoCode, cTwoKeys, cNoName}

LeafHeads == {cNone, cIgnore, cTyped, Then(cText, cTwoCode)}

Trees ==
  {TreeNested(hd, hb, fb, hc) :
     hd \in DocHeads, hb \in ContainerHeads, fb \in ContainerFoots, hc \in LeafHeads}
  \cup {TreeCycle(ha, hr) : ha \in {cNone, cIgnore, cProperty}, hr \in {cNone, cIgnore, cProperty, cTyped}}
  \cup {TreeShared(hs, hq) : hs \in LeafHeads, hq \in {cNone, cSection, cIgnore, cTyped}}

\* a tree that is not walked
NoTree == <<RawDocument(1, <<>>, cNone)>>

(***************************************************************************)
(* walk                                                                    *)
(***************************************************************************)
\* the Node Load starts the walk with
RootNode(t) ==
  [Path |-> <<>>,
   HeadComments |-> ParseComment(t[1].HeadComment),
   FootComment |-> ParseComment(t[1].FootComment),
   RawNode |-> t[1]]

\* a call of walk(root, fn): phase "call" before fn(root) has run, "loop"
\* while the children are walked; i is the loop index; vid numbers the
\* call, anc lists the numbers of the calls it is nested in
Frame(n, anc) == [n |-> n, phase |-> "call", i |-> 0, vid |-> 0, anc |-> anc]

\* how far the loop over the children of a node runs
LoopEnd(raw) ==
  IF raw.Kind \in {SequenceNode, MappingNode, DocumentNode} THEN Len(raw.Content)
  ELSE IF raw.Kind = AliasNode THEN 1
  ELSE 0

LoopStep(raw) == IF raw.Kind = MappingNode THEN 2 ELSE 1

\* the Node walk builds for the child at loop index i
Child(root, i) ==
  LET raw == root.RawNode
  IN IF raw.Kind = SequenceNode
     THEN [Path |-> WithIndex(root.Path, i),
           HeadComments |-> ParseComment(raw.HeadComment),
           FootComment |-> ParseComment(raw.FootComment),
           RawNode |-> tree[raw.Content[i + 1]]]
     ELSE IF raw.Kind = MappingNode
     THEN [Path |-> WithProperty(root.Path, tree[raw.Content[i + 1]].Value),
           HeadComments |-> ParseComment(tree[raw.Content[i + 1]].HeadComment),
           FootComment |-> ParseComment(tree[raw.Content[i + 1]].FootComment),
           RawNode |-> tree[raw.Content[i + 2]]]
     ELSE IF raw.Kind = DocumentNode
     THEN [Path |-> root.Path,
           HeadComments |-> ParseComment(tree[raw.Content[i + 1]].HeadComment),
           FootComment |-> ParseComment(tree[raw.Content[i + 1]].FootComment),
           RawNode |-> tree[raw.Content[i + 1]]]
     ELSE [Path |-> root.Path,
           HeadComments |-> ParseComment(raw.HeadComment),
           FootComment |-> ParseComment(raw.FootComment),
           RawNode |-> tree[raw.Alias]]

\* no ParsePath call has been made on str
NoResult == [called |-> FALSE, path |-> <<>>, err |-> FALSE]

\* the number of calls of the callback so far
Visits(l) == Cardinality({i \in 1..Len(l) : l[i].ev = "visit"})

\* walk returns to its caller; the outermost call returns to Load
Return ==
  /\ stack' = Tail(stack)
  /\ status' = IF Tail(stack) = <<>> THEN "done" ELSE status

\* walk: stop, err := fn(root); return on stop
WalkCall ==
  /\ status = "walking"
  /\ stack # <<>>
  /\ Head(stack).phase = "call"
  /\ LET f == Head(stack)
         vid == Visits(log) + 1
         r == Callback(f.n, [doc |-> document,
                             log |-> Append(log, [ev |-> "visit", vid |-> vid, node |-> f.n,
                                                  anc |-> f.anc])])
     IN /\ document' = r.st.doc
        /\ log' = r.st.log
        /\ IF r.stop THEN Return
           ELSE /\ stack' = <<[f EXCEPT !.phase = "loop", !.vid = vid]>> \o Tail(stack)
                /\ status' = status
  /\ UNCHANGED <<tree, pathVars>>

\* walk: one iteration of the loop over the children, up to the recursive call
WalkDescend ==
  /\ status = "walking"
  /\ stack # <<>>
  /\ Head(stack).phase = "loop"
  /\ Head(stack).i < LoopEnd(Head(stack).n.RawNode)
  /\ Len(stack) < MaxDepth
  /\ LET f == Head(stack)
     IN stack' = <<Frame(Child(f.n, f.i), Append(f.anc, f.vid)),
                   [f EXCEPT !.i = @ + LoopStep(f.n.RawNode)]>> \o Tail(stack)
  /\ UNCHANGED <<tree, document, log, status, pathVars>>

\* the recursion has used up the goroutine stack: the runtime ends the program
WalkOverflow ==
  /\ status = "walking"
  /\ stack # <<>>
  /\ Head(stack).phase = "loop"
  /\ Head(stack).i < LoopEnd(Head(stack).n.RawNode)
  /\ Len(stack) >= MaxDepth
  /\ status' = "overflow"
  /\ UNCHANGED <<tree, stack, document, log, pathVars>>

\* walk: the loop is over, return nil
WalkReturn ==
  /\ status = "walking"
  /\ stack # <<>>
  /\ Head(stack).phase = "loop"
  /\ Head(stack).i >= LoopEnd(Head(stack).n.RawNode)
  /\ Return
  /\ UNCHANGED <<tree, document, log, pathVars>>

\* Load, after the file has been decoded into a tree
Init ==
  /\ tree \in Trees
  /\ stack = <<Frame(RootNode(tree), <<>>)>>
  /\ document = NewDocument
  /\ log = <<>>
  /\ status = "walking"
  /\ path = <<>>
  /\ str = <<>>
  /\ res = NoResult

Next == WalkCall \/ WalkDescend \/ WalkOverflow \/ WalkReturn

Spec == Init /\ [][Next]_vars

(***************************************************************************)
(* The Path operations, applied to bounded inputs                          *)
(***************************************************************************)
InputChars == {"a", "0", "1", ".", "[", "]", "!"}

InputStrings == UNION {[1..n -> InputChars] : n \in 0..MaxStrLen}

PathNames == {<<"a">>, <<"b", "-", "0">>, <<"1">>}

PathWithProperty ==
  /\ Len(path) < MaxPathLen
  /\ \E name \in PathNames : path' = WithProperty(path, name)
  /\ str' = <<>>
  /\ res' = NoResult
  /\ UNCHANGED walkVars

PathWithIndex ==
  /\ Len(path) < MaxPathLen
  /\ \E i \in 0..MaxIndex : path' = WithIndex(path, i)
  /\ str' = <<>>
  /\ res' = NoResult
  /\ UNCHANGED walkVars

PathParent ==
  /\ path' = Parent(path)
  /\ str' = <<>>
  /\ res' = NoResult
  /\ UNCHANGED walkVars

PathToString ==
  /\ str' = PathString(path)
  /\ res' = NoResult
  /\ UNCHANGED <<path, walkVars>>

\* a string from outside, for ParsePath
SetInput ==
  /\ path = <<>>
  /\ str = <<>>
  /\ res = NoResult
  /\ \E s \in InputStrings : str' = s
  /\ res' = NoResult
  /\ UNCHANGED <<path, walkVars>>

CallParsePath ==
  /\ res = NoResult
  /\ res' = [called |-> TRUE, path |-> ParsePath(str).path, err |-> ParsePath(str).err]
  /\ UNCHANGED <<path, str, walkVars>>

InitPath ==
  /\ tree = NoTree
  /\ stack = <<>>
  /\ document = NewDocument
  /\ log = <<>>
  /\ status = "idle"
  /\ path = <<>>
  /\ str = <<>>
  /\ res = NoResult

NextPath ==
  \/ PathWithProperty
  \/ PathWithIndex
  \/ PathParent
  \/ PathToString
  \/ SetInput
  \/ CallParsePath

SpecPath == InitPath /\ [][NextPath]_vars

(***************************************************************************)
(* Properties of the Path model                                            *)
(***************************************************************************)
\* the grammar, read at position pos of s: an index segment starts here
GrammarIndexAt(s, pos) ==
  /\ s[pos] = "["
  /\ \E j \in (pos + 2)..Len(s) :
       s[j] = "]" /\ \A m \in (pos + 1)..(j - 1) : s[m] \in DigitChars

\* the grammar, read at position pos of s: a property segment starts here
GrammarPropertyAt(s, pos) ==
  \/ s[pos] = "." /\ pos < Len(s) /\ s[pos + 1] \in NameChars
  \/ pos = 1 /\ s[pos] \in NameChars

\* s splits after k characters into a valid prefix and a remainder whose
\* first character starts no segment (and does not continue a name)
InvalidAfter(s, k) ==
  /\ k < Len(s)
  /\ ~ParsePath(SubSeq(s, 1, k)).err
  /\ ~GrammarIndexAt(s, k + 1)
  /\ ~GrammarPropertyAt(s, k + 1)
  /\ ~(k >= 1 /\ s[k] \in NameChars /\ s[k + 1] \in NameChars)

\* how many components of kind kd the path p has
Count(p, kd) == Cardinality({i \in 1..Len(p) : p[i].kind = kd})

\* how often the character c occurs in s
Occurrences(s, c) == Cardinality({i \in 1..Len(s) : s[i] = c})

\* C1: ParsePath on a valid prefix followed by a character that matches
\* neither grammar rule returns an error together with exactly the
\* components of the valid prefix, in order.
C1_PartialResult ==
  res.called =>
    \A k \in 0..Len(str) :
      InvalidAfter(str, k) =>
        /\ res.err
        /\ res.path = ParsePath(SubSeq(str, 1, k)).path
        /\ Count(res.path, "index") = Occurrences(SubSeq(str, 1, k), "[")
        /\ Count(res.path, "property") =
             Occurrences(SubSeq(str, 1, k), ".")
               + (IF k > 0 /\ str[1] \in NameChars THEN 1 ELSE 0)
        /\ (k > 0 => res.path # <<>>)

\* C1 witness: "a[0]a" has been parsed: a name directly after an index step
C1_Witness ==
  /\ res.called
  /\ str = <<"a", "[", "0", "]", "a">>
  /\ InvalidAfter(str, 4)
  /\ res.path = <<stringPathComponent(<<"a">>), indexPathComponent(0)>>

\* C2: ParsePath(path.String()) returns no error and the original Path.
C2_RoundTrip ==
  (res.called /\ str = PathString(path)) => (~res.err /\ res.path = path)

\* C2 witness: a round trip of a path with a two-digit index and a property
\* step after an index step
C2_Witness ==
  /\ res.called
  /\ str = PathString(path)
  /\ Len(path) = 3
  /\ path[2] = indexPathComponent(10)
  /\ path[3].kind = "property"

(***************************************************************************)
(* Properties of the walk and of the Document                              *)
(***************************************************************************)
\* the position in the history of the callback that made the call at i
Owner(i) ==
  CHOOSE j \in 1..i :
    log[j].ev = "visit" /\ \A m \in (j + 1)..i : log[m].ev # "visit"

IsVisit(i) == log[i].ev = "visit"

\* the directive comment of the callback at position i of the history
Directive(i) == Pop(log[i].node.HeadComments).comment

Ignored(i) == IsVisit(i) /\ GetBool(Directive(i).Tags, TagIgnore)

\* the calls of the callback made for nodes below the node of the one at i
Descendants(i) ==
  {j \in 1..Len(log) :
     IsVisit(j) /\ \E m \in 1..Len(log[j].anc) : log[j].anc[m] = log[i].vid}

\* the calls the callback at i made itself
OwnEvents(i, ev) ==
  {j \in (i + 1)..Len(log) : log[j].ev = ev /\ Owner(j) = i}

RECURSIVE FlattenSections(_, _)
FlattenSections(sections, i) ==
  IF i > Len(sections) THEN <<>>
  ELSE sections[i].Properties \o FlattenSections(sections, i + 1)

\* the Properties of the Document, section after section
DocProps == FlattenSections(document.Sections, 1)

AppendsProperty(e) ==
  e.ev = "property" \/ (e.ev = "synthetic" /\ ~e.dropped)

\* the Properties in the order in which the walk found them
RECURSIVE Discovered(_)
Discovered(l) ==
  IF l = <<>> THEN <<>>
  ELSE IF AppendsProperty(Head(l)) THEN <<Head(l).prop>> \o Discovered(Tail(l))
  ELSE Discovered(Tail(l))

InDocument(prop) == \E k \in 1..Len(DocProps) : DocProps[k] = prop

\* C3: a node whose directive comment has docs:ignore gets no Property and
\* none of its descendants is visited, whatever its kind and other tags;
\* its remaining head comments and its foot comments are still processed
\* at the path of its parent.
C3_IgnoreSkipsSubtree ==
  \A i \in 1..Len(log) :
    Ignored(i) =>
      /\ OwnEvents(i, "property") = {}
      /\ Descendants(i) = {}
      /\ \E j \in OwnEvents(i, "forward") :
           /\ log[j].src = "head"
           /\ log[j].path = Parent(log[i].node.Path)
           /\ log[j].comments = Pop(log[i].node.HeadComments).rest
      /\ \E j \in OwnEvents(i, "forward") :
           /\ log[j].src = "foot"
           /\ log[j].path = Parent(log[i].node.Path)
           /\ log[j].comments = log[i].node.FootComment
      /\ \A j \in OwnEvents(i, "synthetic") : ~log[j].dropped => InDocument(log[j].prop)
      /\ Cardinality(OwnEvents(i, "section")) =
           Cardinality({k \in 1..Len(Pop(log[i].node.HeadComments).rest) :
                          GetBool(Pop(log[i].node.HeadComments).rest[k].Tags, TagSection)})
           + Cardinality({k \in 1..Len(log[i].node.FootComment) :
                            GetBool(log[i].node.FootComment[k].Tags, TagSection)})

\* C3 witness: the walk is over; it met a non-empty mapping with docs:ignore
\* that has a further head comment, from which a synthetic Property was
\* made, and a foot comment
C3_Witness ==
  /\ status = "done"
  /\ \E i \in 1..Len(log) :
       /\ Ignored(i)
       /\ log[i].node.RawNode.Kind = MappingNode
       /\ log[i].node.RawNode.Content # <<>>
       /\ log[i].node.FootComment # <<>>
       /\ \E j \in OwnEvents(i, "synthetic") : ~log[j].dropped

\* the value nodes of the mappings of the tree that are scalars
MappingScalars ==
  {id \in DOMAIN tree :
     /\ tree[id].Kind = ScalarNode
     /\ \E m \in DOMAIN tree :
          /\ tree[m].Kind = MappingNode
          /\ \E k \in 1..Len(tree[m].Content) : k % 2 = 0 /\ tree[m].Content[k] = id}

\* the node a document or an alias stands for
Target(id) ==
  IF tree[id].Kind = AliasNode THEN tree[id].Alias
  ELSE IF tree[id].Kind = DocumentNode /\ tree[id].Content # <<>> THEN tree[id].Content[1]
  ELSE id

\* the raw node the components k.. of p lead to from the node id; 0 if none
RECURSIVE Navigate(_, _, _)
Navigate(id, p, k) ==
  LET raw == tree[Target(id)]
  IN IF k > Len(p) THEN Target(id)
     ELSE IF p[k].kind = "index"
     THEN (IF raw.Kind = SequenceNode /\ p[k].index < Len(raw.Content)
           THEN Navigate(raw.Content[p[k].index + 1], p, k + 1)
           ELSE 0)
     ELSE (IF raw.Kind = MappingNode
              /\ \E j \in 1..Len(raw.Content) : j % 2 = 1 /\ tree[raw.Content[j]].Value = p[k].name
           THEN Navigate(raw.Content[1 + CHOOSE j \in 1..Len(raw.Content) :
                                           j % 2 = 1 /\ tree[raw.Content[j]].Value = p[k].name],
                         p, k + 1)
           ELSE 0)

\* the raw node a Property name leads to from the root of the tree
NodeAt(name) ==
  IF ParsePath(name).err THEN 0 ELSE Navigate(1, ParsePath(name).path, 1)

\* C4 as stated: when the build is over, every scalar value of a mapping
\* of the tree has become exactly one Property.
C4_EveryScalarOneProperty ==
  status = "done" =>
    \A id \in MappingScalars :
      Cardinality({j \in 1..Len(log) : log[j].ev = "property" /\ log[j].id = id}) = 1

\* C4 as amended: every scalar value of a mapping that the walk visits with
\* a directive comment without docs:ignore becomes, at that visit, exactly
\* one Property of the Document, named by the dotted/indexed path along
\* which it was reached from the root.
C4_VisitedScalarOneProperty ==
  \A i \in 1..Len(log) :
    (/\ IsVisit(i)
     /\ log[i].node.RawNode.id \in MappingScalars
     /\ ~Ignored(i)) =>
      /\ Cardinality(OwnEvents(i, "property")) = 1
      /\ \A j \in OwnEvents(i, "property") :
           /\ log[j].id = log[i].node.RawNode.id
           /\ InDocument(log[j].prop)
           /\ log[j].prop.Name = PathString(log[i].node.Path)
           /\ NodeAt(log[j].prop.Name) = log[i].node.RawNode.id

\* C4 witness: the walk is over and the scalar at b.c was visited without
\* docs:ignore
C4_Witness ==
  /\ status = "done"
  /\ \E i \in 1..Len(log) :
       /\ IsVisit(i)
       /\ log[i].node.RawNode.id \in MappingScalars
       /\ ~Ignored(i)
       /\ Len(log[i].node.Path) = 2
       /\ \E j \in OwnEvents(i, "property") : log[j].prop.Name = <<"b", ".", "c">>

\* C5: a Property whose directive comment has a non-empty docs:type has
\* that type, and one whose comment has a non-empty docs:default has that
\* default, for every Property of the Document.
C5_TagsOverride ==
  \A k \in 1..Len(DocProps) :
    /\ GetString(DocProps[k].Description.Tags, TagType) # <<>> =>
         DocProps[k].Type = GetString(DocProps[k].Description.Tags, TagType)
    /\ GetString(DocProps[k].Description.Tags, TagDefault) # <<>> =>
         DocProps[k].Default = GetString(DocProps[k].Description.Tags, TagDefault)

\* no comment of the tree carries docs:section
NoSectionDirective ==
  \A id \in DOMAIN tree :
    /\ \A k \in 1..Len(ParseComment(tree[id].HeadComment)) :
         ~GetBool(ParseComment(tree[id].HeadComment)[k].Tags, TagSection)
    /\ \A k \in 1..Len(ParseComment(tree[id].FootComment)) :
         ~GetBool(ParseComment(tree[id].FootComment)[k].Tags, TagSection)

IsPrefix(a, b) == Len(a) <= Len(b) /\ SubSeq(b, 1, Len(a)) = a

C6_State ==
  /\ Len(document.Sections) >= 1
  /\ DocProps = Discovered(log)
  /\ NoSectionDirective =>
       /\ Len(document.Sections) = 1
       /\ document.Sections[1].Properties = Discovered(log)

C6_Step ==
  /\ Len(document'.Sections) >= Len(document.Sections)
  /\ \A i \in 1..Len(document.Sections) :
       /\ document'.Sections[i].Name = document.Sections[i].Name
       /\ document'.Sections[i].Description = document.Sections[i].Description
       /\ IsPrefix(document.Sections[i].Properties, document'.Sections[i].Properties)
       /\ i < Len(document.Sections) => document'.Sections[i] = document.Sections[i]

\* C6: the Document always has at least one section; sections are only
\* appended; a Property goes to the section that is last when it is found
\* and the earlier sections stay as they are; without a docs:section
\* directive there is one section, holding all Properties in discovery order.
C6_SectionAssignment == [](C6_State) /\ [][C6_Step]_vars

\* C6 witness: the walk is over with Properties in the implicit section and
\* in a section opened by a directive
C6_Witness ==
  /\ status = "done"
  /\ Len(document.Sections) >= 2
  /\ document.Sections[1].Properties # <<>>
  /\ document.Sections[2].Properties # <<>>

\* C7: alias resolution never enters a raw node that is already on the
\* current chain of calls; the walk would end with an error instead.
C7_NoRevisitOnChain ==
  \A i, j \in 1..Len(stack) :
    i # j => stack[i].n.RawNode.id # stack[j].n.RawNode.id

\* C8: the remaining head comments of a node are processed before any of
\* its descendants is visited, and its foot comments after all of them.
C8_FootAfterDescendants ==
  \A i \in 1..Len(log) :
    IsVisit(i) =>
      \A j \in OwnEvents(i, "forward") :
        \A d \in Descendants(i) :
          /\ (log[j].src = "head" /\ log[j].comments # <<>>) => j < d
          /\ (log[j].src = "foot" /\ log[j].comments # <<>>) => d < j

\* the kinds of end node C9 lists: a scalar, an empty mapping or sequence,
\* a mapping or sequence whose directive comment has docs:property
ListedEndNode(raw, comment) ==
  \/ raw.Kind = ScalarNode
  \/ raw.Kind \in {MappingNode, SequenceNode} /\ raw.Content = <<>>
  \/ raw.Kind \in {MappingNode, SequenceNode} /\ GetBool(comment.Tags, TagProperty)

\* C9: a node that reaches the end-node test and is an end node yields
\* exactly one Property, named by its path, and nothing below it is
\* visited; a document node never yields a Property of its own and its
\* children are visited.
C9_EarlyStop ==
  \A i \in 1..Len(log) :
    (IsVisit(i) /\ ~Ignored(i)) =>
      /\ ListedEndNode(log[i].node.RawNode, Directive(i)) =>
           /\ Cardinality(OwnEvents(i, "property")) = 1
           /\ \A j \in OwnEvents(i, "property") :
                /\ log[j].prop.Name = PathString(log[i].node.Path)
                /\ InDocument(log[j].prop)
           /\ Descendants(i) = {}
      /\ log[i].node.RawNode.Kind = DocumentNode =>
           /\ OwnEvents(i, "property") = {}
           /\ (status = "done" /\ log[i].node.RawNode.Content # <<>>) => Descendants(i) # {}

\* C9 witness: the walk is over; a non-empty mapping with docs:property
\* became a Property
C9_Witness ==
  /\ status = "done"
  /\ \E i \in 1..Len(log) :
       /\ IsVisit(i)
       /\ ~Ignored(i)
       /\ log[i].node.RawNode.Kind = MappingNode
       /\ log[i].node.RawNode.Content # <<>>
       /\ GetBool(Directive(i).Tags, TagProperty)
       /\ OwnEvents(i, "property") # {}

\* the index of the first code segment; 0 for none
FirstCode(sections) ==
  IF \E k \in 1..Len(sections) : sections[k].Type = CommentTypeCode
  THEN CHOOSE k \in 1..Len(sections) :
         /\ sections[k].Type = CommentTypeCode
         /\ \A m \in 1..(k - 1) : sections[m].Type # CommentTypeCode
  ELSE 0

\* C10: for a forwarded docs:property comment with code segments, the
\* first code segment is examined; if it is a single-key mapping, the
\* synthetic Property is named by the forwarding path extended with the
\* key, typed by the shape of the value, has the default "undefined", and
\* its description is the comment without exactly that segment.
C10_FirstCodeSegment ==
  \A i \in 1..Len(log) :
    (log[i].ev = "synthetic" /\ FirstCode(log[i].comment.Sections) # 0) =>
      LET first == FirstCode(log[i].comment.Sections)
          node == Unmarshal(SectionString(log[i].comment.Sections[first]))
      IN IsSinglePair(node) =>
           /\ ~log[i].dropped
           /\ log[i].prop.Name =
                PathString(WithProperty(log[i].path, node.Content[1].Content[1].Value))
           /\ log[i].prop.Type =
                getTypeOf([RawNode |-> node.Content[1].Content[2]], EmptyComment)
           /\ log[i].prop.Default = StrUndefined
           /\ log[i].prop.Description = RemoveSection(log[i].comment, first)

====
